---------------------------- MODULE Spec2Model ----------------------------
(***************************************************************************)
(* Course generation pipeline of app/services/course_generator.py with    *)
(* the cache of app/services/cache_service.py, for one course document.   *)
(*                                                                         *)
(* One action is one atomic block of a coroutine: the code between two    *)
(* awaited external calls (database, Redis, Content Provider, video       *)
(* search) together with the effect of the call that ends the block.      *)
(* The document followed is the one created by fast-path request 1.       *)
(* redis_client is chosen when the service is built: FALSE is the service  *)
(* as CourseGenerationService.__init__ leaves it (its own CacheService, on *)
(* which connect() is not called), TRUE is that instance connected.        *)
(* Persistence writes (update_one) may raise; reads are taken to succeed. *)
(***************************************************************************)
EXTENDS Integers, Sequences, FiniteSets, TLC

\* ------------------------------------------------------------------ bounds
MaxModules == 4          \* largest metadata.total_modules explored
SmallModules == 2        \* total_modules in the specifications of several processes

\* ------------------------------------------------------- program constants
SemaphoreCapacity == 3   \* asyncio.Semaphore(3)
NotHung == -1            \* no Provider call is left without an answer
FallbackModules == 4     \* module titles of _generate_fallback_metadata

\* ------------------------------------------------------------------- state
VARIABLES
    redis_client,        \* the service's CacheService.redis_client is set (connected)
    exists,              \* the course document is in database.courses
    status,              \* document field status
    modules,             \* document field modules: sequence of module records
    introduction,        \* document field introduction is set
    error_message,       \* document field error_message is set
    all_modules_ready,   \* document field all_modules_ready
    total_modules,       \* metadata.total_modules
    module_list,         \* len(metadata.module_list): the number of module titles
    courseCache,         \* value under the Redis key of the course
    progress,            \* Redis progress marker of each module id
    gcPc, gcVal,         \* get_course: position and result, per caller
    taskPc,              \* _generate_course_content_async: position
    runPc, runFrom, runRet, semaphore, wpc,  \* generate_remaining_modules_background
    odPc, odIndex, odRet, odCalls,           \* generate_module_on_demand
    odStructure, odParts, odError,           \* its module structure, response parts, error
    subPc, subI, completed_modules, events,  \* stream_course_generation_progress
    fpPc, fpReq, fpMeta, fpOutcome, fpRet,   \* generate_course_fast_response
    metaCalls,           \* Provider calls of generate_course_metadata, per request
    aiCache,             \* value under the Redis key of each AI response fingerprint
    inserted,            \* requests whose course document insert_one has stored
    global_redis_client, \* redis_client of the module-level cache_service (the routes' one)
    rate_limit,          \* value under the Redis key rate_limit:<user>:audio_generation
    expires,             \* the key carries a time to live
    admitted_in_window,  \* requests admitted since the window of the key began
    audioPc, current_count, audioRet,  \* POST /{course_id}/audio, per request
    concepts, parts, chunks,           \* generate_module_content_chunked, one call
    attempted,           \* module indices the detached task has started to generate
    hung                 \* index of the task whose Provider call does not return, or -1

docVars   == <<exists, status, modules, introduction, error_message,
               all_modules_ready, total_modules, module_list>>
cacheVars == <<courseCache, progress>>
gcVars    == <<gcPc, gcVal>>
runVars   == <<runPc, runFrom, runRet, semaphore, wpc>>
odLog     == <<odStructure, odParts, odError>>
odVars    == <<odPc, odIndex, odRet, odCalls, odLog>>
subVars   == <<subPc, subI, completed_modules, events>>
fpVars    == <<fpPc, fpReq, fpMeta, fpOutcome, fpRet, metaCalls, aiCache, inserted>>
rlVars    == <<global_redis_client, rate_limit, expires, admitted_in_window,
               audioPc, current_count, audioRet>>
\* what the pipeline of one course leaves alone: the cache connection, the
\* state of the fast-path requests and of the audio requests
batchVars == <<concepts, parts, chunks>>
sysVars   == <<redis_client, rlVars, batchVars, hung>>
envVars   == <<sysVars, fpVars, attempted>>
vars == <<envVars, docVars, cacheVars, gcVars, taskPc, runVars, odVars, subVars>>

Runs  == {1}
RunIds == {1, 2}
Calls == {1, 2}
Gets  == {1, 2}
Subs  == {1}
Callers == ({"run"} \X RunIds) \cup ({"od"} \X Calls) \cup ({"get"} \X Gets)
             \cup ({"sub"} \X Subs)

Indices == 0..(MaxModules - 1)     \* module_index
ModuleIds == 1..MaxModules         \* n of "modulo_<n>"

\* ------------------------------------------------------------------ values
NoneVal == [kind |-> "none"]
\* the entry {"status": "ready"} written by _generate_course_content_async
StatusOnlyEntry == [kind |-> "status_only"]
\* Course(**course_doc): the fields of the document the callers read
Course(st, ms) == [kind |-> "course", status |-> st, modules |-> ms]

\* Module(module_id=module_structure["module_id"], ...): module_id is
\* "modulo_<index+1>"; by names the coroutine that generated the content
Module(module_index, producer) == [module_id |-> module_index + 1, by |-> producer]

\* the producer tag of the detached task of the fast path
TaskProducer == <<"task", 0>>

NoMarker == [status |-> "absent", progress |-> 0]
Marker(st, p) == [status |-> st, progress |-> p]

\* ------------------------------------------------------------ CacheService
\* cache_module_generation_progress: setex of the marker, a no-op returning
\* False when redis_client is None
cache_module_generation_progress(markers, module_id, st, p) ==
    IF redis_client THEN [markers EXCEPT ![module_id] = Marker(st, p)] ELSE markers

cache_course_unguarded(entry, course_data) == course_data

\* cache_course: setex of {"course": course_data, ...}, a no-op without Redis
cache_course(entry, course_data) ==
    IF redis_client THEN course_data ELSE entry

\* invalidate_course_cache: delete of the course key, a no-op without Redis
invalidate_course_cache(entry) ==
    IF redis_client THEN NoneVal ELSE entry

\* ---------------------------------------------------------------- get_course
\* A caller enters get_course. Without Redis get_cached_course returns None
\* at once and the first awaited call is find_one.
EnterGetCourse(p) ==
    /\ gcPc' = [gcPc EXCEPT ![p] = IF redis_client THEN "cache" ELSE "db"]
    /\ gcVal' = [gcVal EXCEPT ![p] = NoneVal]

\* the caller takes the returned value
LeaveGetCourse(p) ==
    /\ gcPc' = [gcPc EXCEPT ![p] = "idle"]
    /\ gcVal' = [gcVal EXCEPT ![p] = NoneVal]

\* get_cached_course and "return Course(**course_data)": a hit is returned
\* unless Course(**...) raises (an entry without the required fields), which
\* the except clause turns into "return None"
get_cached_course(p) ==
    /\ gcPc[p] = "cache"
    /\ IF courseCache.kind = "none"
          THEN /\ gcPc' = [gcPc EXCEPT ![p] = "db"]
               /\ UNCHANGED gcVal
          ELSE /\ gcPc' = [gcPc EXCEPT ![p] = "ret"]
               /\ gcVal' = [gcVal EXCEPT ![p] =
                                IF courseCache.kind = "course" THEN courseCache
                                                               ELSE NoneVal]
    /\ UNCHANGED <<envVars, docVars, cacheVars, taskPc, runVars, odVars, subVars>>

\* database.courses.find_one and Course(**course_doc)
find_one(p) ==
    /\ gcPc[p] = "db"
    /\ IF exists
          THEN /\ gcVal' = [gcVal EXCEPT ![p] = Course(status, modules)]
               /\ gcPc' = [gcPc EXCEPT ![p] = IF redis_client THEN "store" ELSE "ret"]
          ELSE /\ gcVal' = [gcVal EXCEPT ![p] = NoneVal]
               /\ gcPc' = [gcPc EXCEPT ![p] = "ret"]
    /\ UNCHANGED <<envVars, docVars, cacheVars, taskPc, runVars, odVars, subVars>>

\* the condition under which get_course stores what it read
ShouldCache(course) == TRUE

\* "await self.cache_service.cache_course(course_id, course.dict())"
populate_cache(p) ==
    /\ gcPc[p] = "store"
    /\ courseCache' = IF ShouldCache(gcVal[p]) THEN cache_course(courseCache, gcVal[p])
                                               ELSE courseCache
    /\ gcPc' = [gcPc EXCEPT ![p] = "ret"]
    /\ UNCHANGED <<envVars, docVars, progress, gcVal, taskPc, runVars, odVars, subVars>>

\* the Redis keys expire (course_cache_ttl, 300 s for a marker)
ExpireCourse ==
    /\ courseCache.kind # "none"
    /\ courseCache' = NoneVal
    /\ UNCHANGED <<envVars, docVars, progress, gcVars, taskPc, runVars, odVars, subVars>>

\* ------------------------------------------------- _save_module_to_course
push_module_set(ms, module) == <<module>>

\* update_one({"_id": course_id}, {"$push": {"modules": module.dict()}})
push_module(ms, module) == Append(ms, module)

\* ------------------------------------ generate_remaining_modules_background
RunCaller(r) == <<"run", r>>
Tasks(r) == {i \in Indices : wpc[r][i] # "none"}
Active == {"structure", "content", "videos", "save", "complete"}
InFlight(r) == {i \in Indices : wpc[r][i] \in Active}

Settled_failFast(r) ==
    \/ \A i \in Tasks(r) : wpc[r][i] \in {"done", "failed"}
    \/ \E i \in Tasks(r) : wpc[r][i] = "failed"

\* asyncio.gather(*tasks, return_exceptions=True) has returned: every task
\* has returned its result
Settled(r) == \A i \in Tasks(r) : wpc[r][i] \in {"done", "failed"}

\* what the coroutine of task i returned to gather: the Module, or None from
\* its except clause
TaskResult(r, i) == IF wpc[r][i] = "done" THEN "Module" ELSE "None"

IsException_countsNone(result) == result # "Module"

\* isinstance(result, Exception)
IsException(result) == result \notin {"Module", "None"}

\* sum(1 for result in results if not isinstance(result, Exception))
successful_modules(r) ==
    Cardinality({i \in Tasks(r) : ~IsException(TaskResult(r, i))})

generate_remaining_modules_background(r) ==
    /\ runPc[r] = "idle"
    /\ runPc' = [runPc EXCEPT ![r] = "get_course"]
    /\ EnterGetCourse(RunCaller(r))
    /\ UNCHANGED <<envVars, docVars, cacheVars, taskPc, runFrom, runRet,
                   semaphore, wpc, odVars, subVars>>

\* "if not course: return False"
RunNotFound(r) ==
    /\ runPc[r] = "get_course"
    /\ gcPc[RunCaller(r)] = "ret"
    /\ gcVal[RunCaller(r)].kind = "none"
    /\ runPc' = [runPc EXCEPT ![r] = "done"]
    /\ runRet' = [runRet EXCEPT ![r] = "False"]
    /\ LeaveGetCourse(RunCaller(r))
    /\ UNCHANGED <<envVars, docVars, cacheVars, taskPc, runFrom, semaphore,
                   wpc, odVars, subVars>>

\* current_modules = len(course.modules); one task per index of
\* range(current_modules, total_modules), under a new Semaphore(3)
RunPlan(r) ==
    /\ runPc[r] = "get_course"
    /\ gcPc[RunCaller(r)] = "ret"
    /\ gcVal[RunCaller(r)].kind = "course"
    /\ LET current_modules == Len(gcVal[RunCaller(r)].modules) IN
         IF current_modules >= total_modules
           THEN /\ runPc' = [runPc EXCEPT ![r] = "done"]
                /\ runRet' = [runRet EXCEPT ![r] = "True"]
                /\ UNCHANGED <<runFrom, semaphore, wpc>>
           ELSE /\ runPc' = [runPc EXCEPT ![r] = "gather"]
                /\ runFrom' = [runFrom EXCEPT ![r] = current_modules]
                /\ semaphore' = [semaphore EXCEPT ![r] = SemaphoreCapacity]
                /\ wpc' = [wpc EXCEPT ![r] =
                              [i \in Indices |->
                                 IF i >= current_modules /\ i < total_modules
                                   THEN "wait" ELSE "none"]]
                /\ UNCHANGED runRet
    /\ LeaveGetCourse(RunCaller(r))
    /\ UNCHANGED <<envVars, docVars, cacheVars, taskPc, odVars, subVars>>

\* ---------------------------------- _generate_single_module_with_semaphore
locked_never(r) == FALSE

\* Semaphore.locked()
locked(r) == semaphore[r] <= 0

WorkerFails_keepsPermit(r, i) ==
    /\ progress' = cache_module_generation_progress(progress, i + 1, "failed", 0)
    /\ UNCHANGED semaphore
    /\ wpc' = [wpc EXCEPT ![r][i] = "failed"]

\* the except clause: the failed marker, then the permit is released
WorkerFails(r, i) ==
    /\ progress' = cache_module_generation_progress(progress, i + 1, "failed", 0)
    /\ semaphore' = [semaphore EXCEPT ![r] = @ + 1]
    /\ wpc' = [wpc EXCEPT ![r][i] = "failed"]

Acquire_afterEarlier(r, i) ==
    /\ wpc[r][i] = "wait"
    /\ ~locked(r)
    /\ \A j \in Indices : j < i => wpc[r][j] \in {"none", "done", "failed"}
    /\ semaphore' = [semaphore EXCEPT ![r] = @ - 1]
    /\ progress' = cache_module_generation_progress(progress, i + 1, "generating", 0)
    /\ wpc' = [wpc EXCEPT ![r][i] = "structure"]
    /\ UNCHANGED <<envVars, docVars, courseCache, gcVars, taskPc, runPc,
                   runFrom, runRet, odVars, subVars>>

\* "async with semaphore": waiters are woken in the order they arrived,
\* which is the order of the indices; then the (generating, 0) marker
Acquire(r, i) ==
    /\ wpc[r][i] = "wait"
    /\ ~locked(r)
    /\ \A j \in Indices : j < i => wpc[r][j] # "wait"
    /\ semaphore' = [semaphore EXCEPT ![r] = @ - 1]
    /\ progress' = cache_module_generation_progress(progress, i + 1, "generating", 0)
    /\ wpc' = [wpc EXCEPT ![r][i] = "structure"]
    /\ UNCHANGED <<envVars, docVars, courseCache, gcVars, taskPc, runPc,
                   runFrom, runRet, odVars, subVars>>

\* generate_module_structure returns (the parsed structure or its fallback);
\* then the (generating, 30) marker
WorkerStructure(r, i) ==
    /\ wpc[r][i] = "structure"
    /\ progress' = cache_module_generation_progress(progress, i + 1, "generating", 30)
    /\ wpc' = [wpc EXCEPT ![r][i] = "content"]
    /\ UNCHANGED <<envVars, docVars, courseCache, gcVars, taskPc, runPc,
                   runFrom, runRet, semaphore, odVars, subVars>>

WorkerContent_noMarker(r, i) ==
    /\ wpc[r][i] = "content"
    /\ wpc' = [wpc EXCEPT ![r][i] = "videos"]
    /\ UNCHANGED <<envVars, docVars, cacheVars, gcVars, taskPc, runPc,
                   runFrom, runRet, semaphore, odVars, subVars>>

\* generate_module_content_chunked returns; then the (generating, 70) marker
WorkerContent(r, i) ==
    /\ wpc[r][i] = "content"
    /\ progress' = cache_module_generation_progress(progress, i + 1, "generating", 70)
    /\ wpc' = [wpc EXCEPT ![r][i] = "videos"]
    /\ UNCHANGED <<envVars, docVars, courseCache, gcVars, taskPc, runPc,
                   runFrom, runRet, semaphore, odVars, subVars>>

\* generate_module_content_chunked raises (a key missing from the parsed
\* structure, a chunk longer than ModuleChunk allows)
WorkerContentFails(r, i) ==
    /\ wpc[r][i] = "content"
    /\ WorkerFails(r, i)
    /\ UNCHANGED <<envVars, docVars, courseCache, gcVars, taskPc, runPc,
                   runFrom, runRet, odVars, subVars>>

\* search_videos_for_module returns and Module(...) is built
WorkerVideos(r, i) ==
    /\ wpc[r][i] = "videos"
    /\ wpc' = [wpc EXCEPT ![r][i] = "save"]
    /\ UNCHANGED <<envVars, docVars, cacheVars, gcVars, taskPc, runPc,
                   runFrom, runRet, semaphore, odVars, subVars>>

\* Module(...) raises on the parsed structure
WorkerModuleFails(r, i) ==
    /\ wpc[r][i] = "videos"
    /\ WorkerFails(r, i)
    /\ UNCHANGED <<envVars, docVars, courseCache, gcVars, taskPc, runPc,
                   runFrom, runRet, odVars, subVars>>

WorkerSave_markerFirst(r, i) ==
    /\ wpc[r][i] = "save"
    /\ progress' = cache_module_generation_progress(progress, i + 1, "completed", 100)
    /\ wpc' = [wpc EXCEPT ![r][i] = "complete"]
    /\ UNCHANGED <<envVars, docVars, courseCache, gcVars, taskPc, runPc,
                   runFrom, runRet, semaphore, odVars, subVars>>

\* _save_module_to_course: the $push, then the invalidation
WorkerSave(r, i) ==
    /\ wpc[r][i] = "save"
    /\ modules' = push_module(modules, Module(i, RunCaller(r)))
    /\ courseCache' = invalidate_course_cache(courseCache)
    /\ wpc' = [wpc EXCEPT ![r][i] = "complete"]
    /\ UNCHANGED <<envVars, exists, status, introduction, error_message,
                   all_modules_ready, total_modules, module_list, progress, gcVars, taskPc,
                   runPc, runFrom, runRet, semaphore, odVars, subVars>>

\* update_one raises
WorkerSaveFails(r, i) ==
    /\ wpc[r][i] = "save"
    /\ WorkerFails(r, i)
    /\ UNCHANGED <<envVars, docVars, courseCache, gcVars, taskPc, runPc,
                   runFrom, runRet, odVars, subVars>>

\* the (completed, 100) marker, "return module", the permit is released
WorkerComplete(r, i) ==
    /\ wpc[r][i] = "complete"
    /\ progress' = cache_module_generation_progress(progress, i + 1, "completed", 100)
    /\ semaphore' = [semaphore EXCEPT ![r] = @ + 1]
    /\ wpc' = [wpc EXCEPT ![r][i] = "done"]
    /\ UNCHANGED <<envVars, docVars, courseCache, gcVars, taskPc, runPc,
                   runFrom, runRet, odVars, subVars>>

\* after gather: "if successful_modules == len(tasks)" the status update and
\* the invalidation; "return True"
RunStatus(r) ==
    /\ runPc[r] = "gather"
    /\ Settled(r)
    /\ IF successful_modules(r) = Cardinality(Tasks(r))
          THEN /\ status' = "ready"
               /\ all_modules_ready' = TRUE
               /\ courseCache' = invalidate_course_cache(courseCache)
          ELSE UNCHANGED <<status, all_modules_ready, courseCache>>
    /\ runPc' = [runPc EXCEPT ![r] = "done"]
    /\ runRet' = [runRet EXCEPT ![r] = "True"]
    /\ UNCHANGED <<envVars, exists, modules, introduction, error_message,
                   total_modules, module_list, progress, gcVars, taskPc, runFrom, semaphore,
                   wpc, odVars, subVars>>

\* the status update raises: the outer except clause, "return False"
RunStatusFails(r) ==
    /\ runPc[r] = "gather"
    /\ Settled(r)
    /\ successful_modules(r) = Cardinality(Tasks(r))
    /\ runPc' = [runPc EXCEPT ![r] = "done"]
    /\ runRet' = [runRet EXCEPT ![r] = "False"]
    /\ UNCHANGED <<envVars, docVars, cacheVars, gcVars, taskPc, runFrom,
                   semaphore, wpc, odVars, subVars>>

Worker(r, i) ==
    \/ Acquire(r, i)
    \/ WorkerStructure(r, i)
    \/ WorkerContent(r, i)
    \/ WorkerContentFails(r, i)
    \/ WorkerVideos(r, i)
    \/ WorkerModuleFails(r, i)
    \/ WorkerSave(r, i)
    \/ WorkerSaveFails(r, i)
    \/ WorkerComplete(r, i)

Run(r) ==
    \/ generate_remaining_modules_background(r)
    \/ RunNotFound(r)
    \/ RunPlan(r)
    \/ RunStatus(r)
    \/ RunStatusFails(r)
    \/ \E i \in Indices : Worker(r, i)

GetCourse(p) ==
    \/ get_cached_course(p)
    \/ find_one(p)
    \/ populate_cache(p)

\* ------------------------------------------ _generate_course_content_async
\* the variables the detached task leaves alone
TaskFrame == UNCHANGED <<envVars, gcVars, runVars, odVars, subVars>>

\* generate_course_introduction returns the text, or its own fallback text
TaskIntroduction ==
    /\ taskPc = "intro"
    /\ taskPc' = "persist_intro"
    /\ UNCHANGED <<docVars, cacheVars>>
    /\ TaskFrame

\* _update_course_introduction; then "if course.metadata.module_list:"
update_course_introduction ==
    /\ taskPc = "persist_intro"
    /\ introduction' = TRUE
    /\ courseCache' = invalidate_course_cache(courseCache)
    /\ taskPc' = IF module_list > 0 THEN "structure" ELSE "mark_ready"
    /\ UNCHANGED <<exists, status, modules, error_message, all_modules_ready,
                   total_modules, module_list, progress>>
    /\ TaskFrame

\* its update_one raises: the outer except clause
TaskIntroductionFails ==
    /\ taskPc = "persist_intro"
    /\ taskPc' = "mark_error"
    /\ UNCHANGED <<docVars, cacheVars>>
    /\ TaskFrame

\* generate_module_structure for the first module (index 0) is called and
\* returns
TaskStructure ==
    /\ taskPc = "structure"
    /\ taskPc' = "content"
    /\ attempted' = attempted \cup {0}
    /\ UNCHANGED <<docVars, cacheVars>>
    /\ UNCHANGED <<sysVars, fpVars, gcVars, runVars, odVars, subVars>>

\* generate_module_content_chunked returns
TaskContent ==
    /\ taskPc = "content"
    /\ taskPc' = "videos"
    /\ UNCHANGED <<docVars, cacheVars>>
    /\ TaskFrame

\* search_videos_for_module returns and Module(...) is built
TaskVideos ==
    /\ taskPc = "videos"
    /\ taskPc' = "save"
    /\ UNCHANGED <<docVars, cacheVars>>
    /\ TaskFrame

\* _save_module_to_course for the first module
TaskSave ==
    /\ taskPc = "save"
    /\ modules' = push_module(modules, Module(0, TaskProducer))
    /\ courseCache' = invalidate_course_cache(courseCache)
    /\ taskPc' = "mark_ready"
    /\ UNCHANGED <<exists, status, introduction, error_message, all_modules_ready,
                   total_modules, module_list, progress>>
    /\ TaskFrame

\* an exception while the first module is generated or saved: the inner
\* except clause logs it and the task goes on to _mark_course_ready
TaskFirstModuleFails ==
    /\ taskPc \in {"content", "videos", "save"}
    /\ taskPc' = "mark_ready"
    /\ UNCHANGED <<docVars, cacheVars>>
    /\ TaskFrame

\* _mark_course_ready
mark_course_ready ==
    /\ taskPc = "mark_ready"
    /\ status' = "ready"
    /\ courseCache' = invalidate_course_cache(courseCache)
    /\ taskPc' = "cache_course"
    /\ UNCHANGED <<exists, modules, introduction, error_message, all_modules_ready,
                   total_modules, module_list, progress>>
    /\ TaskFrame

\* its update_one raises: the outer except clause
TaskMarkReadyFails ==
    /\ taskPc = "mark_ready"
    /\ taskPc' = "mark_error"
    /\ UNCHANGED <<docVars, cacheVars>>
    /\ TaskFrame

\* cache_service.cache_course(course_id, {"status": "ready"})
TaskCacheCourse ==
    /\ taskPc = "cache_course"
    /\ courseCache' = cache_course(courseCache, StatusOnlyEntry)
    /\ taskPc' = "done"
    /\ UNCHANGED <<docVars, progress>>
    /\ TaskFrame

\* _mark_course_error
mark_course_error ==
    /\ taskPc = "mark_error"
    /\ status' = "error"
    /\ error_message' = TRUE
    /\ courseCache' = invalidate_course_cache(courseCache)
    /\ taskPc' = "done"
    /\ UNCHANGED <<exists, modules, introduction, all_modules_ready, total_modules, module_list,
                   progress>>
    /\ TaskFrame

\* its update_one raises too: the exception ends the task
TaskMarkErrorFails ==
    /\ taskPc = "mark_error"
    /\ taskPc' = "done"
    /\ UNCHANGED <<docVars, cacheVars>>
    /\ TaskFrame

Task ==
    \/ TaskIntroduction
    \/ update_course_introduction
    \/ TaskIntroductionFails
    \/ TaskStructure
    \/ TaskContent
    \/ TaskVideos
    \/ TaskSave
    \/ TaskFirstModuleFails
    \/ mark_course_ready
    \/ TaskMarkReadyFails
    \/ TaskCacheCourse
    \/ mark_course_error
    \/ TaskMarkErrorFails

\* ------------------------------------------ generate_module_content_chunked
\* A concept is its name. A part of the split response is its length and the
\* whitespace around it; strip() leaves the rest.
MaxConcepts == 3
ConceptNames == {"variables", "bucles"}
max_length == 5000

Part(len, pad) == [len |-> len, pad |-> pad]
strip(part) == part.len - part.pad

\* "", " ", one character, a text of max_length characters with and without
\* a newline after it, and one character more
PartValues ==
    {Part(0, 0), Part(1, 1), Part(1, 0), Part(max_length, 0),
     Part(max_length + 1, 1), Part(max_length + 1, 0)}

SeqsUpTo(S, n) == UNION {[1..k -> S] : k \in 0..n}

\* module_structure["concepts"]: the Provider's list, no name excluded
ConceptLists == SeqsUpTo(ConceptNames, MaxConcepts) \ {<<>>}

\* content.split("---SEPARADOR_CONCEPTO---"): one part at least
Responses == SeqsUpTo(PartValues, MaxConcepts + 1) \ {<<>>}

\* content of a concept: a text of the Provider (its length) or the text of
\* _generate_level_appropriate_fallback, which is not empty and below max_length
Text(n) == [kind |-> "text", length |-> n]
FallbackText == [kind |-> "fallback"]

\* the for loop of generate_concepts_batch_optimized: turn i (from 1 here)
\* sets concept_contents[concepts[i]]; a later turn for the same name
\* replaces the entry
PartFor(ps, i) ==
    IF i <= Len(ps) /\ strip(ps[i]) > 0 THEN Text(strip(ps[i])) ELSE FallbackText

generate_concepts_batch_optimized(cs, ps) ==
    [c \in {cs[i] : i \in 1..Len(cs)} |->
        LET last == CHOOSE i \in 1..Len(cs) :
                        /\ cs[i] = c
                        /\ \A j \in (i + 1)..Len(cs) : cs[j] # c
        IN  PartFor(ps, last)]

NotRun == [kind |-> "none"]
Raised == [kind |-> "raised"]

\* ModuleChunk.create_chunk: content: str = Field(max_length=5000); TRUE when
\* the chunk is built, FALSE when validation raises
create_chunk(content) ==
    content.kind = "fallback" \/ content.length <= max_length

\* batch_content.get(concept, ...) and create_chunk for each concept in turn
generate_module_content_chunked(cs, ps) ==
    LET batch_content == generate_concepts_batch_optimized(cs, ps)
        contents == [i \in 1..Len(cs) |-> batch_content[cs[i]]]
    IN  IF \A i \in 1..Len(cs) : create_chunk(contents[i])
          THEN [kind |-> "chunks", contents |-> contents]
          ELSE Raised

\* one call, for the concepts and the response given
ChunkModule ==
    /\ chunks = NotRun
    /\ attempted = {}
    /\ hung = NotHung
    /\ chunks' = generate_module_content_chunked(concepts, parts)
    /\ UNCHANGED <<concepts, parts>>
    /\ UNCHANGED <<redis_client, fpVars, rlVars, hung, attempted, docVars, cacheVars,
                   gcVars, taskPc, runVars, odVars, subVars>>

\* ------------------------------------------------ generate_module_on_demand
ODCaller(c) == <<"od", c>>
ODFrame == UNCHANGED <<envVars, taskPc, runVars, subVars>>

\* course.modules[module_index] of a Python list held as a sequence: a
\* negative index counts from the end; out of range raises IndexError, which
\* the except clause of generate_module_on_demand turns into "return None"
PyGetItem(ms, module_index) ==
    IF module_index >= 0 /\ module_index < Len(ms) THEN ms[module_index + 1]
    ELSE IF module_index < 0 /\ -module_index <= Len(ms)
           THEN ms[Len(ms) + module_index + 1]
    ELSE NoneVal

\* the call returns
ODReturn(c, value) ==
    /\ odPc' = [odPc EXCEPT ![c] = "done"]
    /\ odRet' = [odRet EXCEPT ![c] = value]

generate_module_on_demand(c, module_index) ==
    /\ odPc[c] = "idle"
    /\ odPc' = [odPc EXCEPT ![c] = "get_course"]
    /\ odIndex' = [odIndex EXCEPT ![c] = module_index]
    /\ EnterGetCourse(ODCaller(c))
    /\ UNCHANGED <<docVars, cacheVars, odRet, odCalls, odLog>>
    /\ ODFrame

\* "if not course", "if len(course.modules) > module_index",
\* "if module_index >= len(course.metadata.module_list)"
ODCheck(c) ==
    /\ odPc[c] = "get_course"
    /\ gcPc[ODCaller(c)] = "ret"
    /\ LET course == gcVal[ODCaller(c)] IN
         IF course.kind = "none"
           THEN ODReturn(c, NoneVal)
         ELSE IF Len(course.modules) > odIndex[c]
           THEN ODReturn(c, PyGetItem(course.modules, odIndex[c]))
         ELSE IF odIndex[c] >= module_list
           THEN ODReturn(c, NoneVal)
         ELSE /\ odPc' = [odPc EXCEPT ![c] = "structure"]
              /\ UNCHANGED odRet
    /\ LeaveGetCourse(ODCaller(c))
    /\ UNCHANGED <<docVars, cacheVars, odIndex, odCalls, odLog>>
    /\ ODFrame

\* what generate_module_structure returns: the JSON object of the Provider,
\* the fallback structure (json.loads raised, or the call did), or the JSON
\* string or array that fix_malformed_json left of a text ending with one
StructureOutcomes == {"object", "fallback", "not_object"}

\* _generate_fallback_module_structure: four sections, one question with
\* four options, correct_answer 3
FallbackStructure ==
    [concepts |-> <<"Introducción", "Componentes principales",
                    "Implementación práctica", "Casos de uso">>,
     options |-> 4,
     correct_answer |-> 3]

\* the responses followed for a call of the route: up to two parts, each
\* empty, short or over max_length
ODResponses ==
    {ps \in Responses :
        /\ Len(ps) <= 2
        /\ \A i \in 1..Len(ps) :
               ps[i] \in {Part(0, 0), Part(1, 0), Part(max_length + 1, 0)}}

\* module_structure["concepts"]
ConceptsOf(structure) ==
    IF structure = "fallback" THEN {FallbackStructure.concepts} ELSE ConceptLists

\* generate_module_structure returns: one Content Provider call
ODStructure(c) ==
    /\ odPc[c] = "structure"
    /\ odPc' = [odPc EXCEPT ![c] = "content"]
    /\ odCalls' = [odCalls EXCEPT ![c] = @ + 1]
    /\ \E outcome \in StructureOutcomes :
         odStructure' = [odStructure EXCEPT ![c] = outcome]
    /\ UNCHANGED <<docVars, cacheVars, gcVars, odIndex, odRet, odParts, odError>>
    /\ ODFrame

\* generate_module_content_chunked returns: the batched Content Provider
\* call, its response split and a chunk built for every concept
ODContent(c) ==
    /\ odPc[c] = "content"
    /\ odStructure[c] \in {"object", "fallback"}
    /\ \E cs \in ConceptsOf(odStructure[c]), ps \in ODResponses :
         /\ generate_module_content_chunked(cs, ps).kind = "chunks"
         /\ odParts' = [odParts EXCEPT ![c] = ps]
    /\ odPc' = [odPc EXCEPT ![c] = "videos"]
    /\ odCalls' = [odCalls EXCEPT ![c] = @ + 1]
    /\ UNCHANGED <<docVars, cacheVars, gcVars, odIndex, odRet, odStructure, odError>>
    /\ ODFrame

\* generate_module_content_chunked raises, "return None": module_structure
\* is no dict (TypeError at module_structure["module_id"]), the Provider's
\* object lacks a key, or create_chunk raises on a content over max_length
ODContentFails(c) ==
    /\ odPc[c] = "content"
    /\ \/ /\ odStructure[c] = "not_object"
          /\ odError' = [odError EXCEPT ![c] = "TypeError"]
          /\ UNCHANGED <<odCalls, odParts>>
       \/ /\ odStructure[c] = "object"
          /\ odError' = [odError EXCEPT ![c] = "KeyError"]
          /\ UNCHANGED <<odCalls, odParts>>
       \/ /\ odStructure[c] \in {"object", "fallback"}
          /\ \E cs \in ConceptsOf(odStructure[c]), ps \in ODResponses :
               /\ generate_module_content_chunked(cs, ps) = Raised
               /\ odParts' = [odParts EXCEPT ![c] = ps]
          /\ odError' = [odError EXCEPT ![c] = "ValidationError"]
          /\ odCalls' = [odCalls EXCEPT ![c] = @ + 1]
    /\ ODReturn(c, NoneVal)
    /\ UNCHANGED <<docVars, cacheVars, gcVars, odIndex, odStructure>>
    /\ ODFrame

\* search_videos_for_module returns and Module(...) is built
ODVideos(c) ==
    /\ odPc[c] = "videos"
    /\ odPc' = [odPc EXCEPT ![c] = "save"]
    /\ UNCHANGED <<docVars, cacheVars, gcVars, odIndex, odRet, odCalls, odLog>>
    /\ ODFrame

\* "return None": Module(...) raises on the Provider's object (a field
\* missing or of another type), or the update_one of the save raises
ODFails(c) ==
    /\ \/ /\ odPc[c] = "videos"
          /\ odStructure[c] = "object"
          /\ odError' = [odError EXCEPT ![c] = "ValidationError"]
       \/ /\ odPc[c] = "save"
          /\ odError' = [odError EXCEPT ![c] = "database"]
    /\ ODReturn(c, NoneVal)
    /\ UNCHANGED <<docVars, cacheVars, gcVars, odIndex, odCalls, odStructure, odParts>>
    /\ ODFrame

\* _save_module_to_course: the $push, then the invalidation
ODSave(c) ==
    /\ odPc[c] = "save"
    /\ modules' = push_module(modules, Module(odIndex[c], ODCaller(c)))
    /\ courseCache' = invalidate_course_cache(courseCache)
    /\ odPc' = [odPc EXCEPT ![c] = "invalidate"]
    /\ UNCHANGED <<exists, status, introduction, error_message, all_modules_ready,
                   total_modules, module_list, progress, gcVars, odIndex, odRet, odCalls,
                   odLog>>
    /\ ODFrame

\* the second invalidate_course_cache, then "return module"
ODInvalidate(c) ==
    /\ odPc[c] = "invalidate"
    /\ courseCache' = invalidate_course_cache(courseCache)
    /\ ODReturn(c, Module(odIndex[c], ODCaller(c)))
    /\ UNCHANGED <<docVars, progress, gcVars, odIndex, odCalls, odLog>>
    /\ ODFrame

OnDemand(c) ==
    \/ ODCheck(c)
    \/ ODStructure(c)
    \/ ODContent(c)
    \/ ODContentFails(c)
    \/ ODVideos(c)
    \/ ODFails(c)
    \/ ODSave(c)
    \/ ODInvalidate(c)

\* --------------------------------------- stream_course_generation_progress
SubCaller(s) == <<"sub", s>>
SubFrame == UNCHANGED <<envVars, docVars, cacheVars, taskPc, runVars, odVars>>

\* StreamEvent(event_type=..., data=...): the fields of data the claims read
CourseStarted(st) == [event_type |-> "course_started", status |-> st]
ModuleReady(module_id, n) ==
    [event_type |-> "module_ready", module_id |-> module_id, completed_modules |-> n]
CourseComplete(n) == [event_type |-> "course_complete", completed_modules |-> n]

ErrorEvent_asStarted == [event_type |-> "course_started", status |-> "generating"]

\* StreamEvent(event_type="error", data={"message": ...})
ErrorEvent == [event_type |-> "error"]

get_module_generation_progress_completed(module_id) == Marker("completed", 100)

\* get_module_generation_progress: the marker, None without Redis
get_module_generation_progress(module_id) ==
    IF redis_client THEN progress[module_id] ELSE NoMarker

Emit(s, event) == events' = [events EXCEPT ![s] = Append(@, event)]

\* the subscriber's request: the first get_course
Subscribe(s) ==
    /\ subPc[s] = "idle"
    /\ subPc' = [subPc EXCEPT ![s] = "subscribe"]
    /\ EnterGetCourse(SubCaller(s))
    /\ UNCHANGED <<subI, completed_modules, events>>
    /\ SubFrame

\* "if not course": one error event, return
SubNotFound(s) ==
    /\ subPc[s] = "subscribe"
    /\ gcPc[SubCaller(s)] = "ret"
    /\ gcVal[SubCaller(s)].kind = "none"
    /\ Emit(s, ErrorEvent)
    /\ subPc' = [subPc EXCEPT ![s] = "ended"]
    /\ LeaveGetCourse(SubCaller(s))
    /\ UNCHANGED <<subI, completed_modules>>
    /\ SubFrame

\* course_started, completed_modules = set(), then the test of
\* "while course.status == CourseStatus.GENERATING"
SubStarted(s) ==
    /\ subPc[s] = "subscribe"
    /\ gcPc[SubCaller(s)] = "ret"
    /\ gcVal[SubCaller(s)].kind = "course"
    /\ Emit(s, CourseStarted(gcVal[SubCaller(s)].status))
    /\ completed_modules' = [completed_modules EXCEPT ![s] = {}]
    /\ subPc' = [subPc EXCEPT ![s] =
                    IF gcVal[SubCaller(s)].status = "generating" THEN "sleep"
                                                                 ELSE "ended"]
    /\ LeaveGetCourse(SubCaller(s))
    /\ UNCHANGED subI
    /\ SubFrame

\* asyncio.sleep(2) returns; the for loop over module_list starts (with no
\* title it has no turn and the get_course after it is next)
SubWake(s) ==
    /\ subPc[s] = "sleep"
    /\ subI' = [subI EXCEPT ![s] = 0]
    /\ IF module_list > 0
         THEN /\ subPc' = [subPc EXCEPT ![s] = "poll"]
              /\ UNCHANGED gcVars
         ELSE /\ subPc' = [subPc EXCEPT ![s] = "recheck"]
              /\ EnterGetCourse(SubCaller(s))
    /\ UNCHANGED <<completed_modules, events>>
    /\ SubFrame

\* one turn of the for loop, for module_id = modulo_<i+1>; after the last
\* one, the get_course of "Check if course is complete"
SubPoll(s) ==
    /\ subPc[s] = "poll"
    /\ LET module_id == subI[s] + 1
           marker == get_module_generation_progress(module_id)
           ready == /\ module_id \notin completed_modules[s]
                    /\ marker.status = "completed"
       IN  /\ completed_modules' =
                 [completed_modules EXCEPT ![s] = IF ready THEN @ \cup {module_id} ELSE @]
           /\ IF ready
                THEN Emit(s, ModuleReady(module_id,
                                         Cardinality(completed_modules[s]) + 1))
                ELSE UNCHANGED events
    /\ subI' = [subI EXCEPT ![s] = @ + 1]
    /\ IF subI[s] + 1 >= module_list
         THEN /\ subPc' = [subPc EXCEPT ![s] = "recheck"]
              /\ EnterGetCourse(SubCaller(s))
         ELSE UNCHANGED <<subPc, gcVars>>
    /\ SubFrame

\* the re-read course: course_complete on ready, error on error, the next
\* turn of the while loop on generating; on None, course.status raises and the
\* except clause emits an error event
SubCheck(s) ==
    /\ subPc[s] = "recheck"
    /\ gcPc[SubCaller(s)] = "ret"
    /\ LET course == gcVal[SubCaller(s)] IN
         IF course.kind = "none"
           THEN /\ Emit(s, ErrorEvent)
                /\ subPc' = [subPc EXCEPT ![s] = "ended"]
         ELSE IF course.status = "ready"
           THEN /\ Emit(s, CourseComplete(Cardinality(completed_modules[s])))
                /\ subPc' = [subPc EXCEPT ![s] = "ended"]
         ELSE IF course.status = "error"
           THEN /\ Emit(s, ErrorEvent)
                /\ subPc' = [subPc EXCEPT ![s] = "ended"]
         ELSE /\ subPc' = [subPc EXCEPT ![s] = "sleep"]
              /\ UNCHANGED events
    /\ LeaveGetCourse(SubCaller(s))
    /\ UNCHANGED <<subI, completed_modules>>
    /\ SubFrame

\* the subscriber disconnects while the generator is suspended at an await
\* or a yield: the generator is closed, the get_course it was awaiting is
\* cancelled with it and nothing after the suspension point runs
SubCancel(s) ==
    /\ subPc[s] \in {"subscribe", "sleep", "poll", "recheck"}
    /\ subPc' = [subPc EXCEPT ![s] = "ended"]
    /\ LeaveGetCourse(SubCaller(s))
    /\ UNCHANGED <<subI, completed_modules, events>>
    /\ SubFrame

Stream(s) ==
    \/ Subscribe(s)
    \/ SubNotFound(s)
    \/ SubStarted(s)
    \/ SubWake(s)
    \/ SubPoll(s)
    \/ SubCheck(s)

\* ------------------------------------------- generate_course_fast_response
Requests == {1, 2}
Prompts == {"python", "PYTHON", "cocina"}
Levels == {"principiante", "avanzado"}

\* CourseGenerationRequest: prompt and level (the requests of the model carry
\* the same interests)
CourseGenerationRequest(prompt, level) == [prompt |-> prompt, level |-> level]
NoRequest == CourseGenerationRequest("", "")

\* prompt.lower()
lower(prompt) == IF prompt = "PYTHON" THEN "python" ELSE prompt

\* _generate_cache_key("ai_response", model, md5(prompt.lower()), user_level,
\* interests): equal exactly when the lower-cased prompt and the level are
generate_cache_key(request) == <<lower(request.prompt), request.level>>

Fingerprints ==
    {generate_cache_key(CourseGenerationRequest(p, l)) : p \in Prompts, l \in Levels}

\* CourseMetadata(...): the level and the two fields that size the course;
\* source tells the Provider's output from the local fallback
CourseMetadata(source, level, t, n) ==
    [kind |-> "metadata", source |-> source, level |-> level,
     total_modules |-> t, module_list |-> n]

\* _generate_fallback_metadata: four module titles at every level,
\* total_modules=len(modules)
generate_fallback_metadata(level) ==
    CourseMetadata("fallback", level, FallbackModules, FallbackModules)

\* what messages.create and the parsing of its text can come to
ProviderOutcomes ==
    {"valid", "forbidden_terms", "exception", "malformed_json", "schema_invalid"}

\* generate_course_metadata: CourseMetadata(**metadata_dict) of a valid
\* output (for principiante only without a forbidden term in the titles);
\* the fallback from every except clause
course_metadata(level, outcome, t, n) ==
    IF outcome = "valid" \/ (outcome = "forbidden_terms" /\ level # "principiante")
      THEN CourseMetadata("provider", level, t, n)
      ELSE generate_fallback_metadata(level)

\* pydantic: the fields of CourseGenerationResponse without a default
RequiredFields == {"course_id", "metadata", "modules_metadata", "status"}
ValidationError == [kind |-> "raised"]

\* CourseGenerationResponse(**given): raises when a required field is missing
CourseGenerationResponse(given) ==
    IF RequiredFields \subseteq DOMAIN given
      THEN [kind |-> "response", fields |-> given]
      ELSE ValidationError

FPFrame == UNCHANGED <<sysVars, attempted, courseCache, progress,
                       gcVars, runVars, odVars, subVars>>

\* the call (fpOutcome records what the metadata came from: "cache_hit" or
\* the outcome of the Provider call); without Redis get_cached_ai_response returns None at once and
\* the first awaited call is the Provider's
generate_course_fast_response(q, request) ==
    /\ fpPc[q] = "idle"
    /\ fpReq' = [fpReq EXCEPT ![q] = request]
    /\ fpPc' = [fpPc EXCEPT ![q] = IF redis_client THEN "lookup" ELSE "provider"]
    /\ UNCHANGED <<docVars, taskPc, fpMeta, fpOutcome, fpRet, metaCalls, aiCache,
                   inserted>>
    /\ FPFrame

\* get_cached_ai_response: on a hit CourseMetadata(**cached["response"]["metadata"])
get_cached_ai_response(q) ==
    /\ fpPc[q] = "lookup"
    /\ LET cached_response == aiCache[generate_cache_key(fpReq[q])] IN
         IF cached_response.kind = "metadata"
           THEN /\ fpMeta' = [fpMeta EXCEPT ![q] = cached_response]
                /\ fpOutcome' = [fpOutcome EXCEPT ![q] = "cache_hit"]
                /\ fpPc' = [fpPc EXCEPT ![q] = "insert"]
           ELSE /\ fpPc' = [fpPc EXCEPT ![q] = "provider"]
                /\ UNCHANGED <<fpMeta, fpOutcome>>
    /\ UNCHANGED <<docVars, taskPc, fpReq, fpRet, metaCalls, aiCache, inserted>>
    /\ FPFrame

\* generate_course_metadata returns: one Provider call, whatever came of it
generate_course_metadata(q) ==
    /\ fpPc[q] = "provider"
    /\ \E outcome \in ProviderOutcomes, t \in 0..SmallModules, n \in 0..SmallModules :
         /\ fpOutcome' = [fpOutcome EXCEPT ![q] = outcome]
         /\ fpMeta' = [fpMeta EXCEPT ![q] = course_metadata(fpReq[q].level, outcome, t, n)]
    /\ metaCalls' = [metaCalls EXCEPT ![q] = @ + 1]
    /\ fpPc' = [fpPc EXCEPT ![q] = IF redis_client THEN "store" ELSE "insert"]
    /\ UNCHANGED <<docVars, taskPc, fpReq, fpRet, aiCache, inserted>>
    /\ FPFrame

\* cache_ai_response(prompt, {"metadata": metadata.dict()}, ...); the entry
\* lives for ai_response_cache_ttl = 86400 s, longer than the runs followed
cache_ai_response(q) ==
    /\ fpPc[q] = "store"
    /\ aiCache' = [aiCache EXCEPT ![generate_cache_key(fpReq[q])] = fpMeta[q]]
    /\ fpPc' = [fpPc EXCEPT ![q] = "insert"]
    /\ UNCHANGED <<docVars, taskPc, fpReq, fpMeta, fpOutcome, fpRet, metaCalls,
                   inserted>>
    /\ FPFrame

\* insert_one returns: Course(modules=[] by default, status=GENERATING) is
\* stored, the detached task is created, and the return statement builds
\* CourseGenerationResponse(course_id, metadata, status, introduction_ready)
insert_one(q) ==
    /\ fpPc[q] = "insert"
    /\ inserted' = inserted \cup {q}
    /\ IF q = 1
         THEN /\ exists' = TRUE
              /\ status' = "generating"
              /\ modules' = <<>>
              /\ total_modules' = fpMeta[q].total_modules
              /\ module_list' = fpMeta[q].module_list
              /\ taskPc' = "intro"
              /\ UNCHANGED <<introduction, error_message, all_modules_ready>>
         ELSE UNCHANGED <<docVars, taskPc>>
    /\ fpRet' = [fpRet EXCEPT ![q] =
                    CourseGenerationResponse(
                        [course_id |-> q, metadata |-> fpMeta[q],
                         status |-> "generating", introduction_ready |-> TRUE])]
    /\ fpPc' = [fpPc EXCEPT ![q] = "done"]
    /\ UNCHANGED <<fpReq, fpMeta, fpOutcome, metaCalls, aiCache>>
    /\ FPFrame

\* insert_one raises: "except Exception: raise", nothing stored, no task
FPInsertFails(q) ==
    /\ fpPc[q] = "insert"
    /\ fpRet' = [fpRet EXCEPT ![q] = [kind |-> "raised"]]
    /\ fpPc' = [fpPc EXCEPT ![q] = "done"]
    /\ UNCHANGED <<docVars, taskPc, fpReq, fpMeta, fpOutcome, metaCalls, aiCache,
                   inserted>>
    /\ FPFrame

FastPath(q) ==
    \/ get_cached_ai_response(q)
    \/ generate_course_metadata(q)
    \/ cache_ai_response(q)
    \/ insert_one(q)
    \/ FPInsertFails(q)

\* no request made yet
FastPathIdle ==
    /\ fpPc = [q \in Requests |-> "idle"]
    /\ fpReq = [q \in Requests |-> NoRequest]
    /\ fpMeta = [q \in Requests |-> NoneVal]
    /\ fpOutcome = [q \in Requests |-> "none"]
    /\ fpRet = [q \in Requests |-> NoneVal]
    /\ metaCalls = [q \in Requests |-> 0]
    /\ aiCache = [k \in Fingerprints |-> NoneVal]
    /\ inserted = {}

\* ---------------------------------------------- generate_audio, set_rate_limit
AudioRequests == {1, 2, 3}
AudioLimit == 10
NoKey == 0

AudioFrame ==
    UNCHANGED <<redis_client, fpVars, batchVars, hung, attempted, docVars, cacheVars,
                gcVars, taskPc, runVars, odVars, subVars, global_redis_client>>

\* set_rate_limit without Redis: "if not self.redis_client: return False"
set_rate_limit_no_client == FALSE

\* "if not await cache_service.set_rate_limit(...): raise HTTPException(429)"
Answer(admitted) == IF admitted THEN "admitted" ELSE "429"

\* POST /{course_id}/audio: get_cache_service(), set_rate_limit up to the
\* return of redis_client.get (at once without a client)
generate_audio(a) ==
    /\ audioPc[a] = "idle"
    /\ IF global_redis_client
         THEN /\ audioPc' = [audioPc EXCEPT ![a] = "counted"]
              /\ current_count' = [current_count EXCEPT ![a] = rate_limit]
              /\ UNCHANGED audioRet
         ELSE /\ audioPc' = [audioPc EXCEPT ![a] = "done"]
              /\ audioRet' = [audioRet EXCEPT ![a] = Answer(set_rate_limit_no_client)]
              /\ UNCHANGED current_count
    /\ UNCHANGED <<rate_limit, expires, admitted_in_window>>
    /\ AudioFrame

\* the second Redis call of set_rate_limit: setex(key, window, 1) when the
\* key was absent, incr(key) when current_count < limit (incr of a key that
\* has gone creates it with 1), none when the limit is reached
audio_count(a) ==
    /\ audioPc[a] = "counted"
    /\ IF current_count[a] = NoKey
         THEN /\ rate_limit' = 1
              /\ expires' = TRUE
              /\ admitted_in_window' = admitted_in_window + 1
              /\ audioRet' = [audioRet EXCEPT ![a] = Answer(TRUE)]
         ELSE IF current_count[a] < AudioLimit
           THEN /\ rate_limit' = rate_limit + 1
                /\ expires' = (rate_limit # NoKey /\ expires)
                /\ admitted_in_window' = admitted_in_window + 1
                /\ audioRet' = [audioRet EXCEPT ![a] = Answer(TRUE)]
         ELSE /\ UNCHANGED <<rate_limit, expires, admitted_in_window>>
              /\ audioRet' = [audioRet EXCEPT ![a] = Answer(FALSE)]
    /\ audioPc' = [audioPc EXCEPT ![a] = "done"]
    /\ UNCHANGED current_count
    /\ AudioFrame

\* a Redis call of set_rate_limit raises: "except Exception: return False"
audio_count_fails(a) ==
    /\ audioPc[a] = "counted"
    /\ audioRet' = [audioRet EXCEPT ![a] = Answer(FALSE)]
    /\ audioPc' = [audioPc EXCEPT ![a] = "done"]
    /\ UNCHANGED <<rate_limit, expires, admitted_in_window, current_count>>
    /\ AudioFrame

\* the window of the key ends (setex ttl of window_seconds = 3600); a key
\* without a time to live stays
ExpireRateLimit ==
    /\ rate_limit # NoKey
    /\ expires
    /\ rate_limit' = NoKey
    /\ expires' = FALSE
    /\ admitted_in_window' = 0
    /\ UNCHANGED <<audioPc, current_count, audioRet>>
    /\ AudioFrame

Audio(a) ==
    \/ generate_audio(a)
    \/ audio_count(a)
    \/ audio_count_fails(a)

AudioIdle ==
    /\ rate_limit \in 0..AudioLimit
    /\ expires = (rate_limit # NoKey)
    /\ admitted_in_window = rate_limit
    /\ audioPc = [a \in AudioRequests |-> "idle"]
    /\ current_count = [a \in AudioRequests |-> NoKey]
    /\ audioRet = [a \in AudioRequests |-> "none"]

\* ------------------------------------------------------------ initial values
IdleProcesses ==
    /\ gcPc = [p \in Callers |-> "idle"]
    /\ gcVal = [p \in Callers |-> NoneVal]
    /\ runPc = [r \in RunIds |-> "idle"]
    /\ runFrom = [r \in RunIds |-> 0]
    /\ runRet = [r \in RunIds |-> "pending"]
    /\ semaphore = [r \in RunIds |-> SemaphoreCapacity]
    /\ wpc = [r \in RunIds |-> [i \in Indices |-> "none"]]
    /\ odPc = [c \in Calls |-> "idle"]
    /\ odIndex = [c \in Calls |-> 0]
    /\ odRet = [c \in Calls |-> NoneVal]
    /\ odCalls = [c \in Calls |-> 0]
    /\ odStructure = [c \in Calls |-> "none"]
    /\ odParts = [c \in Calls |-> <<>>]
    /\ odError = [c \in Calls |-> "none"]
    /\ subPc = [s \in Subs |-> "idle"]
    /\ subI = [s \in Subs |-> 0]
    /\ completed_modules = [s \in Subs |-> {}]
    /\ events = [s \in Subs |-> <<>>]
    /\ FastPathIdle
    /\ concepts = <<>>
    /\ parts = <<>>
    /\ chunks = NotRun
    /\ attempted = {}
    /\ hung = NotHung
    /\ global_redis_client = FALSE
    /\ rate_limit = NoKey
    /\ expires = FALSE
    /\ admitted_in_window = 0
    /\ audioPc = [a \in AudioRequests |-> "idle"]
    /\ current_count = [a \in AudioRequests |-> NoKey]
    /\ audioRet = [a \in AudioRequests |-> "none"]

\* The start-course run on a course whose detached task has ended (status
\* ready or error, the first module stored or not) or has stopped at a call
\* that does not return (status generating). With Redis the task's {"status": "ready"} entry may
\* still be under the course key.
InitRun ==
    /\ redis_client \in BOOLEAN
    /\ exists = TRUE
    /\ total_modules \in 1..MaxModules
    /\ module_list = total_modules
    /\ status \in {"generating", "ready", "error"}
    /\ modules \in {<<>>, <<Module(0, TaskProducer)>>}
    /\ introduction = TRUE
    /\ error_message = (status = "error")
    /\ all_modules_ready = FALSE
    /\ courseCache \in {NoneVal} \cup
                       {e \in {StatusOnlyEntry} : redis_client /\ status = "ready"}
    /\ progress = [m \in ModuleIds |-> NoMarker]
    /\ taskPc = "done"
    /\ IdleProcesses

NextRun ==
    \/ \E r \in Runs : Run(r)
    \/ \E r \in Runs : GetCourse(RunCaller(r))

SpecRun == InitRun /\ [][NextRun]_vars

\* ------------------------------------------------- claims checked on SpecRun
Failed(r) == {i \in Tasks(r) : wpc[r][i] = "failed"}
Succeeded(r) == {i \in Tasks(r) : wpc[r][i] = "done"}
StoredBy(producer) == {p \in 1..Len(modules) : modules[p].by = producer}
RunGathered(r) == runPc[r] = "done" /\ Tasks(r) # {}

\* C1 (as claimed): once all workers of a run have finished, each having
\* produced its module, position i of modules holds the module of index i
\* (module_id = modulo_<i+1>; positions are counted from 1 here).
C1_SlotIsolation ==
    \A r \in Runs :
        (RunGathered(r) /\ Failed(r) = {}) =>
            \A p \in 1..Len(modules) : modules[p].module_id = p

\* C4 (as claimed): after all module tasks of a run have settled and the run
\* has returned, status is ready if at least one module succeeded and is
\* error, with an error message, otherwise.
C4_CompletionSemantics ==
    \A r \in Runs :
        (RunGathered(r) /\ runRet[r] = "True") =>
            IF Succeeded(r) # {}
              THEN status = "ready"
              ELSE status = "error" /\ error_message

\* C5: a run of n tasks of which k failed, 0 < k < n, that has returned True
\* leaves status ready and exactly n - k modules stored by the run, none of
\* them the module of a failed task.
PartialFailure(r) ==
    /\ RunGathered(r)
    /\ runRet[r] = "True"
    /\ Failed(r) # {}
    /\ Succeeded(r) # {}

C10_BoundedParallelism ==
    \A r \in Runs : Cardinality(InFlight(r)) <= SemaphoreCapacity

C10_Witness ==
    \E r \in Runs :
        /\ Cardinality(InFlight(r)) = SemaphoreCapacity
        /\ \E i \in Indices : wpc[r][i] = "wait"

\* C11: a task that fails changes the position of no sibling task; a run that
\* has returned waited for every task, and every task that did not fail has
\* its module in the document.
C11_SiblingIsolation ==
    /\ [](\A r \in Runs :
            (runPc[r] = "done" /\ Tasks(r) # {}) =>
                \A i \in Tasks(r) :
                    \/ wpc[r][i] = "failed"
                    \/ /\ wpc[r][i] = "done"
                       /\ \E p \in 1..Len(modules) :
                              modules[p] = Module(i, RunCaller(r)))
    /\ [][\A r \in Runs : \A i \in Indices :
            (wpc[r][i] # "failed" /\ wpc'[r][i] = "failed") =>
                \A j \in Indices \ {i} : wpc'[r][j] = wpc[r][j]]_vars

\* a task has failed while siblings are between acquire and release, and
\* the run is still waiting in gather
C11_Witness ==
    \E r \in Runs :
        /\ runPc[r] = "gather"
        /\ Failed(r) # {}
        /\ InFlight(r) # {}

\* C12: a step that changes modules appends the module of a task that was
\* at its save, keeps every module stored before it, and changes no other
\* field of the document.
C12_WriteOwnModuleOnly ==
    [][modules' # modules =>
          /\ Len(modules') = Len(modules) + 1
          /\ SubSeq(modules', 1, Len(modules)) = modules
          /\ \E r \in Runs : \E i \in Indices :
                 /\ wpc[r][i] = "save"
                 /\ modules'[Len(modules')] = Module(i, RunCaller(r))
          /\ UNCHANGED <<exists, status, introduction, error_message,
                         all_modules_ready, total_modules, module_list>>]_vars

\* the run has written two modules after the one the detached task stored
C12_Witness ==
    /\ Len(modules) >= 3
    /\ modules[1].by = TaskProducer
    /\ \E r \in Runs : Cardinality(StoredBy(RunCaller(r))) >= 2

\* ----------------------------------------- detached task and start-course run
\* The state generate_course_fast_response leaves: the document inserted with
\* status generating and no module, the detached task created.
AfterFastPath ==
    /\ redis_client \in BOOLEAN
    /\ exists = TRUE
    /\ total_modules \in 1..SmallModules
    /\ module_list = total_modules
    /\ status = "generating"
    /\ modules = <<>>
    /\ introduction = FALSE
    /\ error_message = FALSE
    /\ all_modules_ready = FALSE
    /\ courseCache = NoneVal
    /\ progress = [m \in ModuleIds |-> NoMarker]
    /\ taskPc = "intro"
    /\ IdleProcesses

NextLife ==
    \/ Task
    \/ \E r \in Runs : Run(r)
    \/ \E r \in Runs : GetCourse(RunCaller(r))
    \/ ExpireCourse

SpecLife == AfterFastPath /\ [][NextLife]_vars

\* C3 (as claimed): the persisted status only ever changes out of generating.
C3_StatusLifecycle == [][status' # status => status = "generating"]_vars
\* ---------------------------------------------------- on-demand generation
\* A course some of whose modules are stored: the first one by the detached
\* task, or none.
InitStored ==
    /\ redis_client \in BOOLEAN
    /\ exists = TRUE
    /\ total_modules \in 1..MaxModules
    /\ module_list = total_modules
    /\ status \in {"generating", "ready"}
    /\ modules \in {<<>>, <<Module(0, TaskProducer)>>}
    /\ introduction = TRUE
    /\ error_message = FALSE
    /\ all_modules_ready = FALSE
    /\ courseCache = NoneVal
    /\ progress = [m \in ModuleIds |-> NoMarker]
    /\ taskPc = "done"
    /\ IdleProcesses

\* the same request again, made after the first call has returned
SecondCall ==
    /\ odPc[1] = "done"
    /\ generate_module_on_demand(2, odIndex[1])

NextOnDemand ==
    \/ \E i \in 0..(total_modules - 1) : generate_module_on_demand(1, i)
    \/ SecondCall
    \/ \E c \in Calls : OnDemand(c)
    \/ \E c \in Calls : GetCourse(ODCaller(c))

SpecOnDemand == InitStored /\ [][NextOnDemand]_vars

\* C2 (as claimed): a second call for the same index, made after the first
\* call wrote its module, returns the module the first call produced, makes
\* no Content Provider call and adds nothing to the course document.
C2_Idempotent ==
    (/\ odPc[1] = "done"
     /\ odRet[1] = Module(odIndex[1], ODCaller(1))
     /\ odPc[2] = "done")
    => /\ odRet[2] = odRet[1]
       /\ odCalls[2] = 0
       /\ StoredBy(ODCaller(2)) = {}
\* ------------------------------------------------------ progress stream
NextStream ==
    \/ Task
    \/ \E r \in Runs : Run(r)
    \/ \E s \in Subs : Stream(s)
    \/ \E r \in Runs : GetCourse(RunCaller(r))
    \/ \E s \in Subs : GetCourse(SubCaller(s))
    \/ ExpireCourse

SpecStream == AfterFastPath /\ [][NextStream]_vars

EventTypes(s) == [k \in 1..Len(events[s]) |-> events[s][k].event_type]

\* C6 (as claimed): a subscription that found the course ready when it
\* subscribed yields exactly course_started, course_complete and ends.
C6_StreamOnReadyCourse ==
    \A s \in Subs :
        (/\ subPc[s] = "ended"
         /\ Len(events[s]) >= 1
         /\ events[s][1] = CourseStarted("ready"))
        => EventTypes(s) = <<"course_started", "course_complete">>

GetCaller(g) == <<"get", g>>

\* GET /api/courses/{course_id}: course_service.get_course(course_id)
api_get_course(g) ==
    /\ gcPc[GetCaller(g)] = "idle"
    /\ EnterGetCourse(GetCaller(g))
    /\ UNCHANGED <<envVars, docVars, cacheVars, taskPc, runVars, odVars, subVars>>

\* the module write of on-demand call 1 (update and invalidation) is done
WriteCompleted == StoredBy(ODCaller(1)) # {}

\* a GetCourse call made after that write has completed
LaterGetCourse ==
    /\ WriteCompleted
    /\ api_get_course(2)

NextCache ==
    \/ \E i \in 0..(total_modules - 1) : generate_module_on_demand(1, i)
    \/ OnDemand(1)
    \/ api_get_course(1)
    \/ LaterGetCourse
    \/ GetCourse(ODCaller(1))
    \/ \E g \in Gets : GetCourse(GetCaller(g))
    \/ ExpireCourse

SpecCache == InitStored /\ [][NextCache]_vars

InitFast ==
    /\ redis_client \in BOOLEAN
    /\ exists = FALSE
    /\ total_modules = 0
    /\ module_list = 0
    /\ status = "generating"
    /\ modules = <<>>
    /\ introduction = FALSE
    /\ error_message = FALSE
    /\ all_modules_ready = FALSE
    /\ courseCache = NoneVal
    /\ progress = [m \in ModuleIds |-> NoMarker]
    /\ taskPc = "none"
    /\ IdleProcesses

\* a request made after request 1 got its answer
FollowingRequest ==
    /\ fpPc[1] = "done"
    /\ \E p \in Prompts, l \in Levels :
         generate_course_fast_response(2, CourseGenerationRequest(p, l))

NextFast ==
    \/ \E p \in Prompts, l \in Levels :
         generate_course_fast_response(1, CourseGenerationRequest(p, l))
    \/ FollowingRequest
    \/ \E q \in Requests : FastPath(q)
    \/ Task

SpecFast == InitFast /\ [][NextFast]_vars

\* the call of request q has ended with its course document inserted
Created(q) == fpPc[q] = "done" /\ q \in inserted

\* C13 (as claimed): the modules sequence of a course has the length
\* metadata.total_modules from its creation on.
C13_FixedLength ==
    exists => Len(modules) = total_modules

\* C14 (as claimed): the call of request 1 ends by returning its response,
\* at that moment the detached task has made no module Provider call and the
\* document has no module; the task exists only once the document is
\* inserted.
C14_FastPathOrdering ==
    [][/\ (fpPc[1] # "done" /\ fpPc'[1] = "done" /\ 1 \in inserted') =>
              /\ fpRet'[1].kind = "response"
              /\ taskPc' = "intro"
              /\ modules' = <<>>
       /\ (taskPc' # "none") => exists']_vars

\* C15 (as claimed): the response carries one stub entry per title of
\* metadata.module_list, in order, the k-th with the id of position k.
C15_StubPerTitle ==
    \A q \in Requests :
        Created(q) =>
            /\ fpRet[q].kind = "response"
            /\ "modules_metadata" \in DOMAIN fpRet[q].fields
            /\ Len(fpRet[q].fields.modules_metadata) = fpMeta[q].module_list
            /\ \A k \in 1..Len(fpRet[q].fields.modules_metadata) :
                   fpRet[q].fields.modules_metadata[k].module_id = k

\* C16 (as claimed): whatever the Provider call came to, the fast path
\* returns a response with status generating and metadata, and the metadata
\* is the fallback of the requested level when the Provider failed.
ProviderFailed(q) == fpOutcome[q] \in {"exception", "malformed_json", "schema_invalid"}

C16_NeverFails ==
    \A q \in Requests :
        (Created(q) /\ fpOutcome[q] \in ProviderOutcomes) =>
            /\ fpRet[q].kind = "response"
            /\ fpRet[q].fields.status = "generating"
            /\ fpRet[q].fields.metadata.kind = "metadata"
            /\ ProviderFailed(q) =>
                   fpRet[q].fields.metadata = generate_fallback_metadata(fpReq[q].level)

\* C17 (as claimed): a request makes no Provider call on a hit and one on a
\* miss, whose result is then under the fingerprint; a following request with
\* the same prompt and level makes no Provider call.
C17_MetadataCache ==
    /\ \A q \in Requests :
           /\ fpOutcome[q] = "cache_hit" => metaCalls[q] = 0
           /\ metaCalls[q] <= 1
           /\ (fpPc[q] \in {"insert", "done"} /\ fpOutcome[q] # "cache_hit") =>
                  /\ metaCalls[q] = 1
                  /\ aiCache[generate_cache_key(fpReq[q])].kind = "metadata"
    /\ (fpPc[2] = "done" /\ fpReq[2] = fpReq[1]) => metaCalls[2] = 0

\* C20: a module_ready event is appended only for a module whose marker
\* reads completed at that step; within a subscription no module has two
\* module_ready events, the k-th module_ready carries the count k, and
\* course_complete carries the number of module_ready events before it.
ModuleReadyAt(s) == {k \in 1..Len(events[s]) : events[s][k].event_type = "module_ready"}

C20_ModuleReadyCount ==
    /\ [](\A s \in Subs : \A k \in 1..Len(events[s]) :
            /\ events[s][k].event_type = "module_ready" =>
                 /\ events[s][k].completed_modules =
                        Cardinality({j \in ModuleReadyAt(s) : j <= k})
                 /\ \A j \in ModuleReadyAt(s) :
                        events[s][j].module_id = events[s][k].module_id => j = k
            /\ events[s][k].event_type = "course_complete" =>
                 events[s][k].completed_modules =
                        Cardinality({j \in ModuleReadyAt(s) : j < k}))
    /\ [][\A s \in Subs :
            (/\ Len(events'[s]) = Len(events[s]) + 1
             /\ events'[s][Len(events'[s])].event_type = "module_ready") =>
                 /\ redis_client
                 /\ progress[events'[s][Len(events'[s])].module_id].status = "completed"]_vars

\* both modules announced, then the end of the course
C20_Witness ==
    \E s \in Subs :
        EventTypes(s) = <<"course_started", "module_ready", "module_ready",
                          "course_complete">>

\* ------------------------------------------- unknown course, index out of range
\* A course id with or without a document behind it
InitAny ==
    /\ redis_client \in BOOLEAN
    /\ exists \in BOOLEAN
    /\ total_modules \in IF exists THEN 1..MaxModules ELSE {0}
    /\ module_list = total_modules
    /\ status \in IF exists THEN {"generating", "ready"} ELSE {"generating"}
    /\ modules \in IF exists THEN {<<>>, <<Module(0, TaskProducer)>>} ELSE {<<>>}
    /\ introduction = exists
    /\ error_message = FALSE
    /\ all_modules_ready = FALSE
    /\ courseCache = NoneVal
    /\ progress = [m \in ModuleIds |-> NoMarker]
    /\ taskPc = IF exists THEN "done" ELSE "none"
    /\ IdleProcesses

\* module_index of the route: any int, one below zero and one past the end
\* included
RequestIndices == (-2)..MaxModules

NextAny ==
    \/ \E i \in RequestIndices : generate_module_on_demand(1, i)
    \/ OnDemand(1)
    \/ GetCourse(ODCaller(1))
    \/ \E s \in Subs : Stream(s)
    \/ \E s \in Subs : GetCourse(SubCaller(s))

SpecAny == InitAny /\ [][NextAny]_vars

\* C18 (as claimed): a call for an unknown course, or with an index outside
\* [0, total_modules), returns None, makes no Content Provider call and
\* writes nothing.
C18_AbsentResult ==
    (/\ odPc[1] = "done"
     /\ \/ ~exists
        \/ odIndex[1] < 0
        \/ odIndex[1] >= total_modules)
    => /\ odRet[1] = NoneVal
       /\ odCalls[1] = 0
       /\ StoredBy(ODCaller(1)) = {}

\* C19: a subscription to a course id without a document emits one error
\* event and ends; it emits no course_started and never polls.
C19_StreamUnknownCourse ==
    \A s \in Subs :
        ~exists =>
            /\ subPc[s] \notin {"sleep", "poll", "recheck"}
            /\ \A k \in 1..Len(events[s]) : events[s][k].event_type # "course_started"
            /\ subPc[s] = "ended" => EventTypes(s) = <<"error">>

\* the subscription to the unknown course has ended
C19_Witness ==
    \E s \in Subs : ~exists /\ subPc[s] = "ended" /\ Len(events[s]) = 1

\* ------------------------------------------ subscription and pipeline together
\* The course is started once the detached task has ended; a subscriber may
\* come, poll and leave at any moment of either.
StartCourse(r) == taskPc = "done" /\ Run(r)

NextDecoupled ==
    \/ Task
    \/ \E r \in Runs : StartCourse(r)
    \/ \E r \in Runs : GetCourse(RunCaller(r))
    \/ \E s \in Subs : Stream(s)
    \/ \E s \in Subs : SubCancel(s)
    \/ \E s \in Subs : GetCourse(SubCaller(s))
    \/ ExpireCourse

SpecDecoupled == AfterFastPath /\ [][NextDecoupled]_vars

StreamStep ==
    \E s \in Subs : Stream(s) \/ SubCancel(s) \/ GetCourse(SubCaller(s))

\* what the pipeline leaves with no subscriber, the course being started after
\* the task: each module stored at most once
StoredOnce ==
    \A p, q \in 1..Len(modules) :
        modules[p].module_id = modules[q].module_id => p = q

CreateCourse ==
    generate_course_fast_response(1, CourseGenerationRequest("python", "principiante"))

StartCourseAfterTask(r) ==
    /\ taskPc = "done"
    /\ odPc[1] = "idle"
    /\ Run(r)

OnDemandAfterTask ==
    /\ taskPc = "done"
    /\ \A r \in Runs : runPc[r] = "idle"
    /\ \/ \E i \in 0..(total_modules - 1) : generate_module_on_demand(1, i)
       \/ OnDemand(1)

GetAfterwards ==
    /\ odPc[1] = "done" \/ \E r \in Runs : runPc[r] = "done"
    /\ api_get_course(1)

NextTransparent ==
    \/ CreateCourse
    \/ FastPath(1)
    \/ Task
    \/ \E r \in Runs : StartCourseAfterTask(r)
    \/ OnDemandAfterTask
    \/ GetAfterwards
    \/ \E p \in {RunCaller(1), ODCaller(1), GetCaller(1)} : GetCourse(p)
    \/ ExpireCourse

SpecTransparent == InitFast /\ [][NextTransparent]_vars

IsPrefix(a, b) == Len(a) <= Len(b) /\ \A k \in 1..Len(a) : a[k] = b[k]

\* C22: with redis_client None nothing is ever stored or found in the cache
\* (course entry, progress markers, metadata entry), the fast path takes its
\* metadata from the Provider, and every get_course returns the course as the
\* database held it: the results of a cache that always misses.
C22_CacheAbsenceTransparent ==
    ~redis_client =>
        /\ courseCache = NoneVal
        /\ \A m \in ModuleIds :
               progress[m] = NoMarker /\ get_module_generation_progress(m) = NoMarker
        /\ \A k \in Fingerprints : aiCache[k] = NoneVal
        /\ \A q \in Requests :
               /\ fpOutcome[q] # "cache_hit"
               /\ fpPc[q] \in {"insert", "done"} => metaCalls[q] = 1
        /\ \A p \in Callers :
               gcPc[p] = "ret" =>
                   /\ gcVal[p].kind = "course"
                   /\ IsPrefix(gcVal[p].modules, modules)

\* without Redis the course was created, the task stored the first module,
\* the run stored another one, and the GET returned the course with both
C22_Witness ==
    /\ ~redis_client
    /\ Created(1)
    /\ StoredBy(TaskProducer) # {}
    /\ StoredBy(RunCaller(1)) # {}
    /\ gcPc[GetCaller(1)] = "ret"
    /\ gcVal[GetCaller(1)] = Course(status, modules)

\* -------------------------------------------------------------- audio route
\* The other pipelines idle; the module-level cache_service connected by
\* init_cache() or left without a client (Redis unreachable at startup); the
\* user's counter anywhere in its window.
InitAudio ==
    /\ redis_client = FALSE
    /\ exists = TRUE
    /\ total_modules = 1
    /\ module_list = 1
    /\ status = "ready"
    /\ modules = <<Module(0, TaskProducer)>>
    /\ introduction = TRUE
    /\ error_message = FALSE
    /\ all_modules_ready = FALSE
    /\ courseCache = NoneVal
    /\ progress = [m \in ModuleIds |-> NoMarker]
    /\ taskPc = "done"
    /\ gcPc = [p \in Callers |-> "idle"]
    /\ gcVal = [p \in Callers |-> NoneVal]
    /\ runPc = [r \in RunIds |-> "idle"]
    /\ runFrom = [r \in RunIds |-> 0]
    /\ runRet = [r \in RunIds |-> "pending"]
    /\ semaphore = [r \in RunIds |-> SemaphoreCapacity]
    /\ wpc = [r \in RunIds |-> [i \in Indices |-> "none"]]
    /\ odPc = [c \in Calls |-> "idle"]
    /\ odIndex = [c \in Calls |-> 0]
    /\ odRet = [c \in Calls |-> NoneVal]
    /\ odCalls = [c \in Calls |-> 0]
    /\ odStructure = [c \in Calls |-> "none"]
    /\ odParts = [c \in Calls |-> <<>>]
    /\ odError = [c \in Calls |-> "none"]
    /\ subPc = [s \in Subs |-> "idle"]
    /\ subI = [s \in Subs |-> 0]
    /\ completed_modules = [s \in Subs |-> {}]
    /\ events = [s \in Subs |-> <<>>]
    /\ FastPathIdle
    /\ concepts = <<>>
    /\ parts = <<>>
    /\ chunks = NotRun
    /\ attempted = {}
    /\ hung = NotHung
    /\ global_redis_client \in BOOLEAN
    /\ AudioIdle

NextAudio ==
    \/ \E a \in AudioRequests : Audio(a)
    \/ ExpireRateLimit

SpecAudio == InitAudio /\ [][NextAudio]_vars

\* C23 (as claimed): with no client on the cache service the rate-limit check
\* lets the audio request through.
C23_RateLimitPassThrough ==
    \A a \in AudioRequests :
        (~global_redis_client /\ audioPc[a] = "done") => audioRet[a] = "admitted"

\* ------------------------------------------------- batched concept contents
\* generate_module_content_chunked for any concept list and any response
InitBatch ==
    /\ redis_client = FALSE
    /\ exists = TRUE
    /\ total_modules = 1
    /\ module_list = 1
    /\ status = "generating"
    /\ modules = <<>>
    /\ introduction = TRUE
    /\ error_message = FALSE
    /\ all_modules_ready = FALSE
    /\ courseCache = NoneVal
    /\ progress = [m \in ModuleIds |-> NoMarker]
    /\ taskPc = "done"
    /\ gcPc = [p \in Callers |-> "idle"]
    /\ gcVal = [p \in Callers |-> NoneVal]
    /\ runPc = [r \in RunIds |-> "idle"]
    /\ runFrom = [r \in RunIds |-> 0]
    /\ runRet = [r \in RunIds |-> "pending"]
    /\ semaphore = [r \in RunIds |-> SemaphoreCapacity]
    /\ wpc = [r \in RunIds |-> [i \in Indices |-> "none"]]
    /\ odPc = [c \in Calls |-> "idle"]
    /\ odIndex = [c \in Calls |-> 0]
    /\ odRet = [c \in Calls |-> NoneVal]
    /\ odCalls = [c \in Calls |-> 0]
    /\ odStructure = [c \in Calls |-> "none"]
    /\ odParts = [c \in Calls |-> <<>>]
    /\ odError = [c \in Calls |-> "none"]
    /\ subPc = [s \in Subs |-> "idle"]
    /\ subI = [s \in Subs |-> 0]
    /\ completed_modules = [s \in Subs |-> {}]
    /\ events = [s \in Subs |-> <<>>]
    /\ FastPathIdle
    /\ global_redis_client = FALSE
    /\ rate_limit = NoKey
    /\ expires = FALSE
    /\ admitted_in_window = 0
    /\ audioPc = [a \in AudioRequests |-> "idle"]
    /\ current_count = [a \in AudioRequests |-> NoKey]
    /\ audioRet = [a \in AudioRequests |-> "none"]
    /\ concepts \in ConceptLists
    /\ parts \in Responses
    /\ chunks = NotRun
    /\ attempted = {}
    /\ hung = NotHung

NextBatch == ChunkModule

SpecBatch == InitBatch /\ [][NextBatch]_vars

\* C30 (as claimed): concept i gets part i when there is one and it is not
\* empty after trimming, a fallback text otherwise; no content is empty and
\* the call does not fail.
C30_BatchPartition ==
    chunks # NotRun =>
        /\ chunks.kind = "chunks"
        /\ \A i \in 1..Len(concepts) :
               /\ chunks.contents[i] =
                      IF i <= Len(parts) /\ strip(parts[i]) > 0
                        THEN Text(strip(parts[i])) ELSE FallbackText
               /\ chunks.contents[i] # Text(0)

\* ------------------------------------------------ on-demand, fallback content
\* every Provider response of call c was unparseable: no module structure
\* came of the first, no separator was in the second (one part)
Unparseable(c) ==
    \/ odStructure[c] = "not_object"
    \/ odStructure[c] = "fallback" /\ Len(odParts[c]) = 1

\* C24 (as claimed): a call for an empty slot whose Provider responses were
\* all unparseable returns, unless the database write raised, a module built
\* on the fallback structure (concepts not empty, correct_answer an index of
\* the options), and that module is stored.
C24_FallbackDeterminism ==
    \A c \in Calls :
        (odPc[c] = "done" /\ Unparseable(c) /\ odError[c] # "database") =>
            /\ odRet[c] = Module(odIndex[c], ODCaller(c))
            /\ odStructure[c] = "fallback"
            /\ Len(FallbackStructure.concepts) > 0
            /\ FallbackStructure.correct_answer \in 0..(FallbackStructure.options - 1)
            /\ \E p \in 1..Len(modules) : modules[p] = odRet[c]

\* -------------------------------------------------- fast path and its task
\* C25 (as claimed): the metadata of every course the fast path has inserted
\* has total_modules equal to the number of its module titles.
C25_TotalMatchesList ==
    \A q \in Requests :
        q \in inserted => fpMeta[q].total_modules = fpMeta[q].module_list

\* C26 (as claimed): when the detached task sets the terminal status it has
\* started the generation of every module index below total_modules.
C26_EveryIndexAttempted ==
    [][(taskPc = "mark_ready" /\ taskPc' = "cache_course")
          => attempted = 0..(total_modules - 1)]_vars

\* C27 (as claimed): whatever comes of the introduction step, its text or
\* its update failing included, the task goes on to the module generation
\* and not to the error status.
C27_IntroductionTolerated ==
    [][(taskPc = "persist_intro" /\ taskPc' # taskPc)
          => taskPc' \in {"structure", "mark_ready"}]_vars

\* ------------------------------------------------- progress markers of a run
Checkpoints ==
    <<Marker("generating", 0), Marker("generating", 30), Marker("generating", 70),
      Marker("completed", 100)>>

Terminal(marker) == marker.status \in {"completed", "failed"}

\* C28: a marker changes from none to (generating, 0), from one checkpoint
\* to the next one, or from a non-terminal value to failed; a generating
\* value is never below the one before it; completed and failed are not
\* written over.
C28_ProgressCheckpoints ==
    [][\A m \in ModuleIds :
          progress'[m] # progress[m] =>
              /\ ~Terminal(progress[m])
              /\ \/ progress[m] = NoMarker /\ progress'[m] = Checkpoints[1]
                 \/ \E k \in 1..3 : progress[m] = Checkpoints[k]
                                     /\ progress'[m] = Checkpoints[k + 1]
                 \/ progress'[m] = Marker("failed", 0)
              /\ progress'[m].status = "generating" =>
                     progress'[m].progress >= progress[m].progress]_vars

\* with Redis, one worker has gone through the four checkpoints and another
\* one has been cut by a failure
C28_Witness ==
    /\ redis_client
    /\ \E m, n \in ModuleIds :
         /\ progress[m] = Checkpoints[4]
         /\ progress[n] = Marker("failed", 0)
    /\ \E r \in Runs : Succeeded(r) # {} /\ Failed(r) # {}

\* ------------------------------------- a Provider call that does not return
\* "await self.client.messages.create(...)" of generate_module_structure or
\* of the content batch in worker i is never resumed; the worker keeps its
\* permit
ProviderHangs(r, i) ==
    /\ hung = NotHung
    /\ wpc[r][i] \in {"structure", "content"}
    /\ hung' = i
    /\ UNCHANGED <<redis_client, rlVars, batchVars, fpVars, attempted, docVars,
                   cacheVars, gcVars, taskPc, runVars, odVars, subVars>>

\* the steps of the worker tasks whose awaits are resumed
WorkerLive(r, i) == i # hung /\ Worker(r, i)

RunLive(r) ==
    \/ generate_remaining_modules_background(r)
    \/ RunNotFound(r)
    \/ RunPlan(r)
    \/ RunStatus(r)
    \/ RunStatusFails(r)
    \/ \E i \in Indices : WorkerLive(r, i)
    \/ \E i \in Indices : ProviderHangs(r, i)

NextHung ==
    \/ \E r \in Runs : RunLive(r)
    \/ \E r \in Runs : GetCourse(RunCaller(r))

\* the event loop resumes every task whose await has completed
FairHung == \A r \in Runs : \A i \in Indices : WF_vars(WorkerLive(r, i))

SpecHung == InitRun /\ [][NextHung]_vars /\ FairHung

Siblings(r) == Tasks(r) \ {hung}

SiblingsSettled(r) == \A j \in Siblings(r) : wpc[r][j] \in {"done", "failed"}

\* C29: once the Provider call of one worker hangs, every other worker of
\* the run still comes to its end (none is left waiting for the permit the
\* hung one holds), and a worker that ends without an exception of its own
\* has its module in the course document.
C29_HungCallStallsOwnModule ==
    /\ \A r \in Runs : (hung # NotHung) ~> SiblingsSettled(r)
    /\ [](\A r \in Runs : \A j \in Siblings(r) :
             wpc[r][j] = "done" =>
                 \E p \in 1..Len(modules) : modules[p] = Module(j, RunCaller(r)))

\* the call of the first worker hangs while more workers than permits were
\* started, and all the others have stored their modules
C29_Witness ==
    \E r \in Runs :
        /\ hung = runFrom[r]
        /\ wpc[r][hung] \in {"structure", "content"}
        /\ Cardinality(Tasks(r)) > SemaphoreCapacity
        /\ \A j \in Siblings(r) :
              /\ wpc[r][j] = "done"
              /\ \E p \in 1..Len(modules) : modules[p] = Module(j, RunCaller(r))

\* ------------------- start-course runs and an on-demand call on one course
\* A start-course request together with a second one or with an on-demand
\* call, on a course whose detached task has ended, with its first module
\* stored or not. With Redis the task's {"status": "ready"} entry may still
\* be under the course key.
InitConcurrent ==
    /\ redis_client \in BOOLEAN
    /\ exists = TRUE
    /\ total_modules = SmallModules
    /\ module_list = total_modules
    /\ status = "ready"
    /\ modules \in {<<>>, <<Module(0, TaskProducer)>>}
    /\ introduction = TRUE
    /\ error_message = FALSE
    /\ all_modules_ready = FALSE
    /\ courseCache \in {NoneVal} \cup {e \in {StatusOnlyEntry} : redis_client}
    /\ progress = [m \in ModuleIds |-> NoMarker]
    /\ taskPc = "done"
    /\ IdleProcesses

\* the second start-course request, made when no on-demand call was
SecondStartCourse == odPc[1] = "idle" /\ Run(2)

\* the on-demand call, made when no second start-course request was
OnDemandRequest(i) == runPc[2] = "idle" /\ generate_module_on_demand(1, i)

NextConcurrent ==
    \/ Run(1)
    \/ SecondStartCourse
    \/ \E r \in RunIds : GetCourse(RunCaller(r))
    \/ \E i \in 0..(total_modules - 1) : OnDemandRequest(i)
    \/ OnDemand(1)
    \/ GetCourse(ODCaller(1))

SpecConcurrent == InitConcurrent /\ [][NextConcurrent]_vars

\* C31 (as claimed): whatever the interleaving of start-course runs and
\* on-demand calls, the course never holds more modules than total_modules
\* and never two modules with the same module_id.
C31_NoDuplicateNoOverflow ==
    /\ Len(modules) <= total_modules
    /\ \A p, q \in 1..Len(modules) :
          p # q => modules[p].module_id # modules[q].module_id

C34_ReadyOnlyWhenAllStored ==
    [][\A r \in Runs :
          (runPc[r] = "gather" /\ runPc'[r] = "done" /\ all_modules_ready')
              => /\ status' = "ready"
                 /\ Failed(r) = {}
                 /\ \A i \in Tasks(r) :
                       \E p \in 1..Len(modules) : modules[p] = Module(i, RunCaller(r))]_vars

\* --------------------------------------- completed markers and the document
Persisted(m) == \E p \in 1..Len(modules) : modules[p].module_id = m

Announced(s, m) ==
    \E k \in 1..Len(events[s]) :
        /\ events[s][k].event_type = "module_ready"
        /\ events[s][k].module_id = m

\* the modules stored while the status was generating: those of the
\* detached task, which stores its module before it sets the status
PersistedDuringGeneration ==
    {modules[p].module_id : p \in StoredBy(TaskProducer)}

\* C36 (as claimed): when a subscription opened during generation emits
\* course_complete, it has emitted module_ready for every module stored
\* during generation.
C36_ModuleReadyBeforeComplete ==
    [][\A s \in Subs :
          (/\ Len(events[s]) > 0
           /\ events[s][1] = CourseStarted("generating")
           /\ Len(events'[s]) = Len(events[s]) + 1
           /\ events'[s][Len(events'[s])].event_type = "course_complete")
              => \A m \in PersistedDuringGeneration : Announced(s, m)]_vars

\* ------------------------------------------------- the rate-limit counter
\* C37 (as claimed): the requests admitted within one window of the key
\* are never more than the limit, however the requests interleave.
C37_RateLimitBound == admitted_in_window <= AudioLimit

\* C38 (as claimed): the counter always carries a time to live.
C38_CounterAlwaysExpires == rate_limit # NoKey => expires

\* ------------------------------------------------- termination of a run
\* every call of the run returns or raises: the event loop resumes the
\* run, its get_course and each of its workers whenever they can go on
FairRun ==
    \A r \in Runs :
        /\ WF_vars(generate_remaining_modules_background(r) \/ RunNotFound(r)
                      \/ RunPlan(r) \/ RunStatus(r) \/ RunStatusFails(r))
        /\ WF_vars(GetCourse(RunCaller(r)))
        /\ \A i \in Indices : WF_vars(Worker(r, i))

SpecTerminate == InitRun /\ [][NextRun]_vars /\ FairRun

\* C39: a run that has started its workers comes to the end of its status
\* step, and by then every worker has held a permit and has ended; the
\* permits in use are never more than three, and when all workers have
\* ended, by success or by failure, every permit is back.
C39_RunTerminates ==
    /\ \A r \in Runs : (runPc[r] = "gather") ~> (runPc[r] = "done")
    /\ [](\A r \in Runs :
             /\ runPc[r] = "done" => Settled(r)
             /\ semaphore[r] \in 0..SemaphoreCapacity
             /\ Settled(r) => semaphore[r] = SemaphoreCapacity)

\* a run with more workers than permits has ended, one worker by success
\* and one by failure, with all permits back
C39_Witness ==
    \E r \in Runs :
        /\ runPc[r] = "done"
        /\ Cardinality(Tasks(r)) > SemaphoreCapacity
        /\ Succeeded(r) # {}
        /\ Failed(r) # {}
        /\ semaphore[r] = SemaphoreCapacity
====
